---- MODULE Spec2Model ----
(***************************************************************************)
(* Model of main.py: the access-gated GET /ai-events handler, its          *)
(* verify_api_key dependency, the Playwright render steps, the card        *)
(* selection, the per-card field extraction and the AI keyword filter.     *)
(*                                                                         *)
(* Text is modelled as a sequence of one-character strings, so that the    *)
(* regular expressions, str.strip and the class matching of the source     *)
(* are computed character by character.                                    *)
(***************************************************************************)
EXTENDS Integers, Sequences, FiniteSets, TLC

(***************************************************************************)
(* Characters: Python's \w, str.lower under re.IGNORECASE, str.isspace,    *)
(* restricted to the ASCII characters the inputs below are built from.     *)
(***************************************************************************)
UpperCase == <<"A", "B", "C", "D", "E", "F", "G", "H", "I", "J", "K", "L", "M", "N", "O", "P", "Q", "R", "S", "T", "U", "V", "W", "X", "Y", "Z">>

LowerCase == <<"a", "b", "c", "d", "e", "f", "g", "h", "i", "j", "k", "l", "m", "n", "o", "p", "q", "r", "s", "t", "u", "v", "w", "x", "y", "z">>

Digits == {"0", "1", "2", "3", "4", "5", "6", "7", "8", "9"}

Range(s) == {s[k] : k \in DOMAIN s}

WordChars == Range(UpperCase) \cup Range(LowerCase) \cup Digits \cup {"_"}

IsWordChar(c) == c \in WordChars

\* The ASCII characters str.strip() removes: space, \t, \n, \r, \f, the
\* vertical tab \x0b and the separators \x1c, \x1d, \x1e, \x1f (the last five
\* stand raw in the strings below).  Python also strips the non-ASCII spaces
\* (\x85, \xa0, ...), which are outside the characters modelled here.
VerticalTab == ""

FileSeparator == ""

GroupSeparator == ""

RecordSeparator == ""

UnitSeparator == ""

IsSpace(c) ==
    c \in {" ", "\t", "\n", "\r", "\f", VerticalTab,
           FileSeparator, GroupSeparator, RecordSeparator, UnitSeparator}

\* str.lower on the upper-case letters, as a record indexed by the letter.
LowerOf ==
    [A |-> "a", B |-> "b", C |-> "c", D |-> "d", E |-> "e", F |-> "f",
     G |-> "g", H |-> "h", I |-> "i", J |-> "j", K |-> "k", L |-> "l",
     M |-> "m", N |-> "n", O |-> "o", P |-> "p", Q |-> "q", R |-> "r",
     S |-> "s", T |-> "t", U |-> "u", V |-> "v", W |-> "w", X |-> "x",
     Y |-> "y", Z |-> "z"]

lower(c) == IF c \in DOMAIN LowerOf THEN LowerOf[c] ELSE c

\* The regex assertion \b at offset p of text (p characters lie before it).
WordBoundary(text, p) ==
    LET before == p >= 1 /\ IsWordChar(text[p])
        after  == p < Len(text) /\ IsWordChar(text[p + 1])
    IN  before # after

\* pattern occurs in text starting at index i, compared literally
\* (re.escape) and, when ignorecase, modulo case.
LiteralAt(pattern, text, i, ignorecase) ==
    /\ i >= 1
    /\ i + Len(pattern) - 1 <= Len(text)
    /\ \A j \in 1..Len(pattern) :
          IF ignorecase
          THEN lower(text[i + j - 1]) = lower(pattern[j])
          ELSE text[i + j - 1] = pattern[j]

\* re.search(pattern, text, re.IGNORECASE) is not None, pattern a literal.
SearchLiteralIgnoreCase(pattern, text) ==
    \E i \in 1..Len(text) : LiteralAt(pattern, text, i, TRUE)

(***************************************************************************)
(* AI_KEYWORDS and the keyword test of the card loop.                      *)
(***************************************************************************)
AI_KEYWORDS ==
    << <<"A", "I">>,
       <<"A", "r", "t", "i", "f", "i", "c", "i", "a", "l", " ", "I", "n", "t", "e", "l", "l", "i", "g", "e", "n", "c", "e">>,
       <<"M", "a", "c", "h", "i", "n", "e", " ", "L", "e", "a", "r", "n", "i", "n", "g">>,
       <<"M", "L">>,
       <<"D", "e", "e", "p", " ", "L", "e", "a", "r", "n", "i", "n", "g">>,
       <<"C", "o", "g", "n", "i", "t", "i", "v", "e", " ", "S", "e", "r", "v", "i", "c", "e", "s">>,
       <<"A", "z", "u", "r", "e", " ", "A", "I">>,
       <<"C", "o", "p", "i", "l", "o", "t">>,
       <<"G", "e", "n", "e", "r", "a", "t", "i", "v", "e", " ", "A", "I">>,
       <<"N", "e", "u", "r", "a", "l", " ", "N", "e", "t", "w", "o", "r", "k", "s">>,
       <<"D", "a", "t", "a", " ", "S", "c", "i", "e", "n", "c", "e">>,
       <<"I", "n", "t", "e", "l", "l", "i", "g", "e", "n", "t", " ", "A", "p", "p", "s">> >>

KeywordSearchUnbounded(keyword, text) == SearchLiteralIgnoreCase(keyword, text)

\* re.search(r'\b' + re.escape(keyword) + r'\b', text, re.IGNORECASE)
KeywordSearch(keyword, text) ==
    \E i \in 1..Len(text) :
        /\ WordBoundary(text, i - 1)
        /\ LiteralAt(keyword, text, i, TRUE)
        /\ WordBoundary(text, i + Len(keyword) - 1)

is_ai_event(title, description) ==
    \E k \in DOMAIN AI_KEYWORDS :
        \/ KeywordSearch(AI_KEYWORDS[k], title)
        \/ KeywordSearch(AI_KEYWORDS[k], description)

(***************************************************************************)
(* BeautifulSoup text extraction: tag.get_text(strip=True) strips every    *)
(* text node of the tag, drops the empty ones and joins the rest with "".  *)
(***************************************************************************)
RECURSIVE lstrip(_)
lstrip(s) == IF s # <<>> /\ IsSpace(Head(s)) THEN lstrip(Tail(s)) ELSE s

RECURSIVE rstrip(_)
rstrip(s) ==
    IF s # <<>> /\ IsSpace(s[Len(s)]) THEN rstrip(SubSeq(s, 1, Len(s) - 1)) ELSE s

strip(s) == rstrip(lstrip(s))

RECURSIVE get_text(_)
get_text(strings) ==
    IF strings = <<>> THEN <<>>
    ELSE strip(Head(strings)) \o get_text(Tail(strings))

NA == <<"N", "/", "A">>

(***************************************************************************)
(* A card is what the four card.find calls see of one div:                 *)
(*   class       the tokens of its class attribute (<<>> when it has none) *)
(*   title, date, description                                              *)
(*               [found, strings]: whether the h3.c-heading-6 /            *)
(*               p.title-date / p.gridcard-description-min exists, and the *)
(*               text nodes below it                                       *)
(*   button      [found, has_onclick, onclick]: the first button whose id  *)
(*               matches EventRegistrationButton                           *)
(***************************************************************************)
NoElement == [found |-> FALSE, strings |-> <<>>]

Element(strings) == [found |-> TRUE, strings |-> strings]

NoButton == [found |-> FALSE, has_onclick |-> FALSE, onclick |-> <<>>]

ButtonWithoutOnclick == [found |-> TRUE, has_onclick |-> FALSE, onclick |-> <<>>]

Button(onclick) == [found |-> TRUE, has_onclick |-> TRUE, onclick |-> onclick]

WindowOpen == <<"w", "i", "n", "d", "o", "w", ".", "o", "p", "e", "n", "(", "'">>

Quote == "'"

\* re.search(r"window\.open\('([^']+)'", onclick) matches at index i:
\* the literal, then at least one character that is no quote, then a quote.
\* The value is the index of the closing quote, 0 when there is no match at i.
ClosingQuoteAt(onclick, i) ==
    LET first == i + Len(WindowOpen)
        quotes == {q \in first..Len(onclick) : onclick[q] = Quote}
    IN  IF LiteralAt(WindowOpen, onclick, i, FALSE) /\ quotes # {}
        THEN LET q == CHOOSE q \in quotes : \A r \in quotes : q <= r
             IN  IF q > first THEN q ELSE 0
        ELSE 0

\* url_match.group(1) of the leftmost match, or the "N/A" the link starts as.
ExtractLink(button) ==
    LET onclick == button.onclick
        starts == {i \in 1..Len(onclick) : ClosingQuoteAt(onclick, i) # 0}
    IN  IF button.found /\ button.has_onclick /\ onclick # <<>> /\ starts # {}
        THEN LET i == CHOOSE i \in starts : \A r \in starts : i <= r
             IN  SubSeq(onclick, i + Len(WindowOpen), ClosingQuoteAt(onclick, i) - 1)
        ELSE NA

ExtractRecordCoupled(card) ==
    LET complete == card.title.found /\ card.date.found /\ card.description.found
    IN  [title       |-> IF complete THEN get_text(card.title.strings) ELSE NA,
         date        |-> IF complete THEN get_text(card.date.strings) ELSE NA,
         description |-> IF complete THEN get_text(card.description.strings) ELSE <<>>,
         link        |-> ExtractLink(card.button)]

\* The locals title, date, description, link after lines 105-125 for one card.
ExtractRecord(card) ==
    [title       |-> IF card.title.found THEN get_text(card.title.strings) ELSE NA,
     date        |-> IF card.date.found THEN get_text(card.date.strings) ELSE NA,
     description |-> IF card.description.found
                     THEN get_text(card.description.strings) ELSE <<>>,
     link        |-> ExtractLink(card.button)]

(***************************************************************************)
(* Card discovery, lines 94-99: soup.find_all('div', class_=...).  A       *)
(* document is the sequence of its div elements in document order.         *)
(***************************************************************************)
PrimaryClass == <<"c", "-", "c", "a", "r", "d", " ", "b", "g", "c", "o", "l", "o", "r", "-", "w", "h", "i", "t", "e", " ", "g", "r", "i", "d", "e", "v", "e", "n", "t", "s", "c", "r", "o", "l", "l">>

RECURSIVE JoinSpace(_)
JoinSpace(tokens) ==
    IF tokens = <<>> THEN <<>>
    ELSE IF Len(tokens) = 1 THEN Head(tokens)
    ELSE Head(tokens) \o <<" ">> \o JoinSpace(Tail(tokens))

\* bs4 matches a string against a multi-valued attribute when one of the
\* values equals it, or when the values joined by a space equal it.
PrimaryMatch(div) ==
    /\ div.class # <<>>
    /\ \/ \E k \in DOMAIN div.class : div.class[k] = PrimaryClass
       \/ JoinSpace(div.class) = PrimaryClass

\* re.compile(r'card|event', re.IGNORECASE) searched in each value, then in
\* the joined value.
CardOrEvent(text) ==
    \/ SearchLiteralIgnoreCase(<<"c", "a", "r", "d">>, text)
    \/ SearchLiteralIgnoreCase(<<"e", "v", "e", "n", "t">>, text)

FallbackMatch(div) ==
    /\ div.class # <<>>
    /\ \/ \E k \in DOMAIN div.class : CardOrEvent(div.class[k])
       \/ CardOrEvent(JoinSpace(div.class))

PrimaryCards(doc) == SelectSeq(doc, PrimaryMatch)

FallbackCards(doc) == SelectSeq(doc, FallbackMatch)

FindCardsBoth(doc) ==
    [cards    |-> SelectSeq(doc, LAMBDA div : PrimaryMatch(div) \/ FallbackMatch(div)),
     fallback |-> TRUE]

\* Lines 94-99: the fallback search runs when the first one found nothing.
FindCards(doc) ==
    IF PrimaryCards(doc) = <<>>
    THEN [cards |-> FallbackCards(doc), fallback |-> TRUE]
    ELSE [cards |-> PrimaryCards(doc), fallback |-> FALSE]

(***************************************************************************)
(* The body of the card loop, lines 127-141: the record is appended to     *)
(* events_data when the keyword test passes.                               *)
(***************************************************************************)
AppendIfAiEventAlways(events, record) == Append(events, record)

AppendIfAiEventFront(events, record) ==
    IF is_ai_event(record.title, record.description)
    THEN <<record>> \o events
    ELSE events

AppendIfAiEvent(events, record) ==
    IF is_ai_event(record.title, record.description)
    THEN Append(events, record)
    ELSE events

\* The keyword filter on its own: the loop of lines 127-140 run over records.
RECURSIVE FilterInto(_, _)
FilterInto(events, records) ==
    IF records = <<>> THEN events
    ELSE FilterInto(AppendIfAiEvent(events, Head(records)), Tail(records))

FilterRecords(records) == FilterInto(<<>>, records)

(***************************************************************************)
(* verify_api_key, lines 29-35.  A header is [present, value]; Python sees *)
(* None when it is not present.  status 200 stands for "returns the key".  *)
(***************************************************************************)
NoHeader == [present |-> FALSE, value |-> ""]

Header(value) == [present |-> TRUE, value |-> value]

Unauthorized == 401

Ok == 200

InternalError == 500

verify_api_key_NoMissingCheck(x_api_key, key) ==
    IF ~x_api_key.present \/ x_api_key.value # key
    THEN [status |-> Unauthorized, detail |-> "Invalid API key"]
    ELSE [status |-> Ok, detail |-> ""]

verify_api_key_NoCompare(x_api_key, key) ==
    IF ~x_api_key.present \/ x_api_key.value = ""
    THEN [status |-> Unauthorized, detail |-> "API key is required"]
    ELSE [status |-> Ok, detail |-> ""]

verify_api_key(x_api_key, key) ==
    IF ~x_api_key.present \/ x_api_key.value = ""
    THEN [status |-> Unauthorized, detail |-> "API key is required"]
    ELSE IF x_api_key.value # key
    THEN [status |-> Unauthorized, detail |-> "Invalid API key"]
    ELSE [status |-> Ok, detail |-> ""]

(***************************************************************************)
(* Bounds and inputs.                                                      *)
(***************************************************************************)
\* Largest number of div elements in a rendered document.
MaxCards == 2

\* Largest number of fragments an onclick attribute is built from.
MaxFrags == 3

\* range(4), line 64, and range(3), line 84.
LoadMoreRounds == 4

ScrollRounds == 3

\* API_KEY is read from the environment and is never empty (lines 25-27).
ConfiguredKeys == {"s3cret"}

Headers == {NoHeader} \cup {Header(v) : v \in {"", "s3cret", "S3CRET", "s3cret ", "wrong"}}

\* str(e) of a raised exception.
ErrorTexts == {"Timeout 30000ms exceeded."}

RegistrationOnclick ==
    WindowOpen \o <<"h", "t", "t", "p", "s", ":", "/", "/", "r", "e", "g", ".", "e", "x", "a", "m", "p", "l", "e", "/", "1">> \o <<Quote>> \o <<")">>

\* The text node of a heading as the page holds it, with its line breaks.
SummitHeading ==
    <<"\r", "\n", VerticalTab, FileSeparator>> \o <<" ", "A", "z", "u", "r", "e", " ", "A", "I", " ", "S", "u", "m", "m", "i", "t", " ">>
        \o <<"\f", GroupSeparator, RecordSeparator, UnitSeparator, "\r", "\n", "\t">>

Div(class, title, date, description, button) ==
    [class |-> class, title |-> title, date |-> date,
     description |-> description, button |-> button]

PrimaryTokens == << <<"c", "-", "c", "a", "r", "d">>, <<"b", "g", "c", "o", "l", "o", "r", "-", "w", "h", "i", "t", "e">>, <<"g", "r", "i", "d", "e", "v", "e", "n", "t", "s", "c", "r", "o", "l", "l">> >>

\* The div elements documents are built from.
Divs ==
    { Div(PrimaryTokens, Element(<< SummitHeading >>),
          Element(<< <<"M", "a", "y", " ", "5">> >>), Element(<< <<"J", "o", "i", "n", " ", "u", "s">> >>),
          Button(RegistrationOnclick)),
      Div(PrimaryTokens, Element(<< <<"Q", "u", "a", "r", "t", "e", "r", "l", "y", " ", "M", "a", "i", "n", "t", "e", "n", "a", "n", "c", "e", " ", "W", "i", "n", "d", "o", "w">> >>),
          Element(<< <<"M", "a", "y", " ", "5">> >>), Element(<< <<"J", "o", "i", "n", " ", "u", "s">> >>), NoButton),
      Div(PrimaryTokens, NoElement, Element(<< <<" ", "M", "a", "y", " ">>, <<"5">> >>),
          Element(<< <<"B", "u", "i", "l", "d", " ", "w", "i", "t", "h", " ", "c", "o", "p", "i", "l", "o", "t", "-", "s", "t", "y", "l", "e", " ", "t", "o", "o", "l", "s", " ">> >>), Button(<<"a", "l", "e", "r", "t", "(", "1", ")">>)),
      Div(<< <<"E", "v", "e", "n", "t", "-", "T", "i", "l", "e">> >>, Element(<< <<"m", "l", " ", "o", "p", "s">> >>), NoElement, NoElement,
          Button(WindowOpen \o <<Quote>>)),
      Div(<< <<"g", "r", "i", "d", "e", "v", "e", "n", "t", "s", "c", "r", "o", "l", "l">>, <<"c", "-", "c", "a", "r", "d">>, <<"b", "g", "c", "o", "l", "o", "r", "-", "w", "h", "i", "t", "e">> >>,
          Element(<< <<"O", "p", "e", "n", "A", "I", "_", "A", "I", " ", "n", "e", "w", "s">> >>), Element(<< <<"J", "u", "n", "e", " ", "1">> >>),
          Element(<<>>), NoButton),
      Div(<< <<"b", "a", "n", "n", "e", "r">> >>, Element(<< <<"A", "z", "u", "r", "e", " ", "A", "I">> >>), NoElement, NoElement, NoButton) }

SeqsUpTo(S, k) == UNION {[1..m -> S] : m \in 0..k}

Docs == SeqsUpTo(Divs, MaxCards)

RECURSIVE Flatten(_)
Flatten(parts) == IF parts = <<>> THEN <<>> ELSE Head(parts) \o Flatten(Tail(parts))

Fragments == {WindowOpen, <<Quote>>, <<"h", "t", "t", "p", "s", ":", "/", "/", "r", "e", "g", ".", "e", "x", "a", "m", "p", "l", "e", "/", "1">>, <<")">>}

OnclickTexts == {Flatten(parts) : parts \in SeqsUpTo(Fragments, MaxFrags)}

Buttons == {NoButton, ButtonWithoutOnclick} \cup {Button(t) : t \in OnclickTexts}

\* Cards with every combination of missing and present sub-elements.
ExtractCards ==
    { Div(PrimaryTokens, t, d, s, b) :
        t \in {NoElement, Element(<< SummitHeading >>),
               Element(<< <<"Q", "u", "a", "r", "t", "e", "r", "l", "y", " ", "M", "a", "i", "n", "t", "e", "n", "a", "n", "c", "e", " ", "W", "i", "n", "d", "o", "w">> >>)},
        d \in {NoElement, Element(<< <<"M", "a", "y", " ", "5">> >>)},
        s \in {NoElement, Element(<<>>), Element(<< <<"J", "o", "i", "n", " ", "u", "s">> >>)},
        b \in Buttons }

(***************************************************************************)
(* State of one GET /ai-events request.                                    *)
(*   API_KEY       the configured secret                                   *)
(*   x_api_key     the X-API-Key header of the request                     *)
(*   pc            the statement the request is at                         *)
(*   playwright    the async_playwright() scope: "none", "started",        *)
(*                 "stopped"                                               *)
(*   browser       the browser session: "none", "open", "closed"           *)
(*   i, s          the counters of the load-more and the scroll loop       *)
(*   calls         the page and browser methods invoked so far, in order   *)
(*   exc           <<>> or <<str(e)>> of the exception being propagated    *)
(*   html_content, event_cards, fallback_searched, n, fields, events_data  *)
(*                 the locals of the parse and card loop; n cards are      *)
(*                 done; fields are title, date, description and link      *)
(*   response      what the client receives, status 0 before it is sent    *)
(***************************************************************************)
VARIABLES API_KEY, x_api_key, pc, playwright, browser, i, s, calls, exc,
          html_content, event_cards, fallback_searched, n, fields,
          events_data, response

vars == <<API_KEY, x_api_key, pc, playwright, browser, i, s, calls, exc,
          html_content, event_cards, fallback_searched, n, fields,
          events_data, response>>

request == <<API_KEY, x_api_key>>

render == <<playwright, browser, i, s, calls, html_content>>

cards == <<event_cards, fallback_searched, n, fields, events_data>>

NoResponse == [status |-> 0, detail |-> "", ai_events |-> <<>>]

UnsetFields == [title |-> <<>>, date |-> <<>>, description |-> <<>>, link |-> <<>>]

Init ==
    /\ API_KEY \in ConfiguredKeys
    /\ x_api_key \in Headers
    /\ pc = "verify_api_key"
    /\ playwright = "none"
    /\ browser = "none"
    /\ i = 0
    /\ s = 0
    /\ calls = <<>>
    /\ exc = <<>>
    /\ html_content = <<>>
    /\ event_cards = <<>>
    /\ fallback_searched = FALSE
    /\ n = 0
    /\ fields = UnsetFields
    /\ events_data = <<>>
    /\ response = NoResponse

\* Depends(verify_api_key), line 45: the handler body runs only when the
\* dependency returns; its HTTPException is the response.
VerifyApiKey ==
    /\ pc = "verify_api_key"
    /\ LET r == verify_api_key(x_api_key, API_KEY)
       IN  IF r.status = Unauthorized
           THEN /\ response' = [status |-> r.status, detail |-> r.detail,
                                ai_events |-> <<>>]
                /\ pc' = "Rejected"
           ELSE /\ response' = response
                /\ pc' = "async_playwright"
    /\ UNCHANGED <<request, render, cards, exc>>

RaiseInWithSkippingExit(call) ==
    /\ \E text \in ErrorTexts : exc' = <<text>>
    /\ calls' = IF call = "" THEN calls ELSE Append(calls, call)
    /\ pc' = "except"

\* A statement inside the with block raises: the exception leaves the block
\* through __aexit__.
RaiseInWith(call) ==
    /\ \E text \in ErrorTexts : exc' = <<text>>
    /\ calls' = IF call = "" THEN calls ELSE Append(calls, call)
    /\ pc' = "aexit"

\* async with async_playwright() as p, line 55.
EnterPlaywright ==
    /\ pc = "async_playwright"
    /\ \/ /\ playwright' = "started"
          /\ pc' = "launch"
          /\ UNCHANGED exc
       \/ /\ \E text \in ErrorTexts : exc' = <<text>>
          /\ pc' = "except"
          /\ UNCHANGED playwright
    /\ UNCHANGED <<request, browser, i, s, calls, html_content, cards, response>>

\* browser = await p.chromium.launch(headless=True), line 58.
Launch ==
    /\ pc = "launch"
    /\ \/ /\ browser' = "open"
          /\ pc' = "new_page"
          /\ UNCHANGED <<exc, calls>>
       \/ /\ RaiseInWith("")
          /\ UNCHANGED browser
    /\ UNCHANGED <<request, playwright, i, s, html_content, cards, response>>

\* page = await browser.new_page(), line 59.
NewPage ==
    /\ pc = "new_page"
    /\ \/ /\ pc' = "goto"
          /\ UNCHANGED <<exc, calls>>
       \/ RaiseInWith("")
    /\ UNCHANGED <<request, playwright, browser, i, s, html_content, cards, response>>

\* await page.goto(url, wait_until="networkidle"), line 61.
Goto ==
    /\ pc = "goto"
    /\ \/ /\ calls' = Append(calls, "goto")
          /\ pc' = "query_selector"
          /\ UNCHANGED exc
       \/ RaiseInWith("goto")
    /\ UNCHANGED <<request, playwright, browser, i, s, html_content, cards, response>>

(***************************************************************************)
(* The load-more loop, lines 64-80.  Round i looks the button up, clicks   *)
(* it, waits 5 s and waits for the network to be idle.  An absent button   *)
(* and an exception of any of the four calls both break out of the loop.   *)
(***************************************************************************)
AfterRoundNoBreak(round) ==
    IF round + 1 < LoadMoreRounds + 1 THEN "query_selector" ELSE "scroll"

AfterRound(round) ==
    IF round + 1 < LoadMoreRounds THEN "query_selector" ELSE "scroll"

\* except Exception as e: logger.warning(...); break, lines 78-80.
BreakLoadMore(call) ==
    /\ calls' = Append(calls, call)
    /\ pc' = "scroll"
    /\ UNCHANGED exc

QuerySelector ==
    /\ pc = "query_selector"
    /\ \/ /\ calls' = Append(calls, "query_selector")
          /\ pc' = "click"
          /\ UNCHANGED exc
       \/ /\ calls' = Append(calls, "query_selector")
          /\ pc' = "scroll"
          /\ UNCHANGED exc
       \/ BreakLoadMore("query_selector")
    /\ UNCHANGED <<request, playwright, browser, i, s, html_content, cards, response>>

Click ==
    /\ pc = "click"
    /\ \/ /\ calls' = Append(calls, "click")
          /\ pc' = "wait_for_timeout(5000)"
          /\ UNCHANGED exc
       \/ BreakLoadMore("click")
    /\ UNCHANGED <<request, playwright, browser, i, s, html_content, cards, response>>

WaitLoadMore ==
    /\ pc = "wait_for_timeout(5000)"
    /\ \/ /\ calls' = Append(calls, "wait_for_timeout(5000)")
          /\ pc' = "wait_for_load_state"
          /\ UNCHANGED exc
       \/ BreakLoadMore("wait_for_timeout(5000)")
    /\ UNCHANGED <<request, playwright, browser, i, s, html_content, cards, response>>

WaitNetworkIdle ==
    /\ pc = "wait_for_load_state"
    /\ \/ /\ calls' = Append(calls, "wait_for_load_state")
          /\ i' = i + 1
          /\ pc' = AfterRound(i)
          /\ UNCHANGED exc
       \/ /\ BreakLoadMore("wait_for_load_state")
          /\ UNCHANGED i
    /\ UNCHANGED <<request, playwright, browser, s, html_content, cards, response>>

(***************************************************************************)
(* The scroll loop, lines 84-86, outside the inner try.                    *)
(***************************************************************************)
AfterScroll(round) ==
    IF round + 1 < ScrollRounds THEN "scroll" ELSE "content"

Scroll ==
    /\ pc = "scroll"
    /\ \/ /\ calls' = Append(calls, "scrollTo")
          /\ pc' = "wait_for_timeout(2000)"
          /\ UNCHANGED exc
       \/ RaiseInWith("scrollTo")
    /\ UNCHANGED <<request, playwright, browser, i, s, html_content, cards, response>>

WaitScroll ==
    /\ pc = "wait_for_timeout(2000)"
    /\ \/ /\ calls' = Append(calls, "wait_for_timeout(2000)")
          /\ s' = s + 1
          /\ pc' = AfterScroll(s)
          /\ UNCHANGED exc
       \/ /\ RaiseInWith("wait_for_timeout(2000)")
          /\ UNCHANGED s
    /\ UNCHANGED <<request, playwright, browser, i, html_content, cards, response>>

\* html_content = await page.content(), line 88.
Content ==
    /\ pc = "content"
    /\ \/ /\ \E doc \in Docs : html_content' = doc
          /\ calls' = Append(calls, "content")
          /\ pc' = "close"
          /\ UNCHANGED exc
       \/ /\ RaiseInWith("content")
          /\ UNCHANGED html_content
    /\ UNCHANGED <<request, playwright, browser, i, s, cards, response>>

\* await browser.close(), line 89.
Close ==
    /\ pc = "close"
    /\ \/ /\ browser' = "closed"
          /\ calls' = Append(calls, "close")
          /\ pc' = "aexit"
          /\ UNCHANGED exc
       \/ /\ RaiseInWith("close")
          /\ UNCHANGED browser
    /\ UNCHANGED <<request, playwright, i, s, html_content, cards, response>>

\* The end of the with block, on the normal and on the exceptional path:
\* __aexit__ is awaited; when it returns, Playwright is stopped, which ends
\* the browsers it launched.  When __aexit__ itself raises, its exception
\* goes to the except clause of line 148; no statement of the source
\* releases anything on that path, and how far the exit got is not
\* determined by the source, so Playwright and the browser are either left
\* as they were or stopped.
ExitPlaywright ==
    /\ pc = "aexit"
    /\ \/ /\ playwright' = "stopped"
          /\ browser' = IF browser = "open" THEN "closed" ELSE browser
          /\ pc' = IF exc = <<>> THEN "parse" ELSE "except"
          /\ UNCHANGED exc
       \/ /\ \E text \in ErrorTexts : exc' = <<text>>
          /\ \/ UNCHANGED <<playwright, browser>>
             \/ /\ playwright' = "stopped"
                /\ browser' = IF browser = "open" THEN "closed" ELSE browser
          /\ pc' = "except"
    /\ UNCHANGED <<request, i, s, calls, html_content, cards, response>>

\* Lines 91-101: parse the markup and find the cards.
Parse ==
    /\ pc = "parse"
    /\ \/ /\ event_cards' = FindCards(html_content).cards
          /\ fallback_searched' = FindCards(html_content).fallback
          /\ pc' = "card_loop"
          /\ UNCHANGED exc
       \/ /\ \E text \in ErrorTexts : exc' = <<text>>
          /\ pc' = "except"
          /\ UNCHANGED <<event_cards, fallback_searched>>
    /\ UNCHANGED <<request, render, n, fields, events_data, response>>

\* One iteration of for card in event_cards, lines 103-141.
ProcessCard ==
    /\ pc = "card_loop"
    /\ n < Len(event_cards)
    /\ LET record == ExtractRecord(event_cards[n + 1])
       IN  /\ fields' = record
           /\ events_data' = AppendIfAiEvent(events_data, record)
    /\ n' = n + 1
    /\ UNCHANGED <<request, render, pc, exc, event_cards, fallback_searched, response>>

\* An exception inside the loop body (e.g. a RecursionError or MemoryError).
CardRaises ==
    /\ pc = "card_loop"
    /\ n < Len(event_cards)
    /\ \E text \in ErrorTexts : exc' = <<text>>
    /\ pc' = "except"
    /\ UNCHANGED <<request, render, cards, response>>

\* return {"ai_events": events_data}, line 146.
Return ==
    /\ pc = "card_loop"
    /\ n = Len(event_cards)
    /\ response' = [status |-> Ok, detail |-> "", ai_events |-> events_data]
    /\ pc' = "Responded"
    /\ UNCHANGED <<request, render, cards, exc>>

ErrorResponseWithEvents(text, events) ==
    [status |-> IF events = <<>> THEN InternalError ELSE Ok,
     detail |-> IF events = <<>> THEN "Failed to scrape events: " \o text ELSE "",
     ai_events |-> events]

ErrorResponse(text, events) ==
    [status |-> InternalError,
     detail |-> "Failed to scrape events: " \o text,
     ai_events |-> <<>>]

\* except Exception as e: raise HTTPException(500, ...), lines 148-150.
Except ==
    /\ pc = "except"
    /\ response' = ErrorResponse(exc[1], events_data)
    /\ pc' = "Error"
    /\ UNCHANGED <<request, render, cards, exc>>

Next ==
    \/ VerifyApiKey
    \/ EnterPlaywright
    \/ Launch
    \/ NewPage
    \/ Goto
    \/ QuerySelector
    \/ Click
    \/ WaitLoadMore
    \/ WaitNetworkIdle
    \/ Scroll
    \/ WaitScroll
    \/ Content
    \/ Close
    \/ ExitPlaywright
    \/ Parse
    \/ ProcessCard
    \/ CardRaises
    \/ Return
    \/ Except

Spec == Init /\ [][Next]_vars

(***************************************************************************)
(* The card loop on its own: the request has rendered a page holding one   *)
(* card, any of ExtractCards, and is about to process it.                  *)
(***************************************************************************)
RenderedCalls ==
    <<"goto", "query_selector",
      "scrollTo", "wait_for_timeout(2000)", "scrollTo", "wait_for_timeout(2000)",
      "scrollTo", "wait_for_timeout(2000)", "content", "close">>

InitExtract ==
    /\ API_KEY = "s3cret"
    /\ x_api_key = Header("s3cret")
    /\ pc = "card_loop"
    /\ playwright = "stopped"
    /\ browser = "closed"
    /\ i = 0
    /\ s = ScrollRounds
    /\ calls = RenderedCalls
    /\ exc = <<>>
    /\ \E card \in ExtractCards :
          /\ html_content = <<card>>
          /\ event_cards = FindCards(<<card>>).cards
    /\ fallback_searched = FALSE
    /\ n = 0
    /\ fields = UnsetFields
    /\ events_data = <<>>
    /\ response = NoResponse

NextExtract == ProcessCard \/ Return

SpecExtract == InitExtract /\ [][NextExtract]_vars

(***************************************************************************)
(* Properties.                                                             *)
(***************************************************************************)
Terminal == {"Rejected", "Responded", "Error"}

\* No part of the pipeline has run for this request.
NoPipelineWork ==
    /\ playwright = "none"
    /\ browser = "none"
    /\ calls = <<>>
    /\ html_content = <<>>
    /\ event_cards = <<>>
    /\ n = 0
    /\ events_data = <<>>
    /\ exc = <<>>

Count(seq, x) == Cardinality({k \in DOMAIN seq : seq[k] = x})

\* C1: a request without an X-API-Key header is answered 401 "API key is
\* required" and never gets past verify_api_key: no browser is launched and
\* no navigation, load-more, scroll, extraction or filtering happens.
C1_MissingKeyRejected ==
    ~x_api_key.present =>
        /\ pc \in {"verify_api_key", "Rejected"}
        /\ NoPipelineWork
        /\ pc = "Rejected" =>
              response = [status |-> 401, detail |-> "API key is required",
                          ai_events |-> <<>>]

C1_Witness == ~x_api_key.present /\ pc = "Rejected"

\* C2 as stated: every present header value other than the secret, the
\* empty string included, is answered 401 "Invalid API key" with no
\* scraping work.
C2_AnyWrongValueIsInvalid ==
    (x_api_key.present /\ x_api_key.value # API_KEY /\ pc # "verify_api_key") =>
        /\ pc = "Rejected"
        /\ NoPipelineWork
        /\ response.status = 401
        /\ response.detail = "Invalid API key"

\* C2, amended: a present, non-empty header value other than the secret is
\* answered 401 "Invalid API key"; a present empty value is answered 401
\* "API key is required"; in both cases no scraping work is started.
C2_WrongKeyRejected ==
    (x_api_key.present /\ x_api_key.value # API_KEY) =>
        /\ pc \in {"verify_api_key", "Rejected"}
        /\ NoPipelineWork
        /\ pc = "Rejected" =>
              /\ response.status = 401
              /\ response.ai_events = <<>>
              /\ response.detail = IF x_api_key.value = ""
                                   THEN "API key is required"
                                   ELSE "Invalid API key"

C2_Witness ==
    /\ x_api_key.present
    /\ x_api_key.value \notin {"", API_KEY}
    /\ pc = "Rejected"
    /\ response.detail = "Invalid API key"

\* A keyword occurs in text, compared modulo case, with no word character
\* directly before or directly after the occurrence.
OccursWordBounded(keyword, text) ==
    \E a \in 1..Len(text) :
        LET b == a + Len(keyword) - 1
        IN  /\ b <= Len(text)
            /\ \A j \in 1..Len(keyword) : lower(text[a + j - 1]) = lower(keyword[j])
            /\ a = 1 \/ ~IsWordChar(text[a - 1])
            /\ b = Len(text) \/ ~IsWordChar(text[b + 1])

MentionsAi(record) ==
    \E k \in DOMAIN AI_KEYWORDS :
        \/ OccursWordBounded(AI_KEYWORDS[k], record.title)
        \/ OccursWordBounded(AI_KEYWORDS[k], record.description)

\* C3: at every point of the card loop and in every 200 response, each
\* record of the list has a title or a description with a case-insensitive,
\* word-bounded occurrence of a keyword of AI_KEYWORDS; the card titled
\* "Quarterly Maintenance Window" is never in the list.
C3_OnlyAiEvents ==
    /\ \A k \in DOMAIN events_data : MentionsAi(events_data[k])
    /\ \A k \in DOMAIN response.ai_events : MentionsAi(response.ai_events[k])
    /\ \A k \in DOMAIN events_data :
          events_data[k].title # <<"Q", "u", "a", "r", "t", "e", "r", "l", "y", " ", "M", "a", "i", "n", "t", "e", "n", "a", "n", "c", "e", " ", "W", "i", "n", "d", "o", "w">>

C3_Witness ==
    /\ pc = "Responded"
    /\ Len(response.ai_events) = 1
    /\ Len(event_cards) = 2
    /\ \E k \in DOMAIN event_cards :
          ExtractRecord(event_cards[k]).title = <<"Q", "u", "a", "r", "t", "e", "r", "l", "y", " ", "M", "a", "i", "n", "t", "e", "n", "a", "n", "c", "e", " ", "W", "i", "n", "d", "o", "w">>

\* C4: an authenticated request ends either in 200 with the list, or in 500
\* with detail "Failed to scrape events: <error text>" and no list; once a
\* step has raised, the outcome is the 500 and the records collected so far
\* are not part of it.
C4_ListOrError ==
    /\ pc = "Responded" =>
          /\ response = [status |-> 200, detail |-> "", ai_events |-> events_data]
          /\ exc = <<>>
    /\ pc = "Error" =>
          /\ exc # <<>>
          /\ response = [status |-> 500,
                         detail |-> "Failed to scrape events: " \o exc[1],
                         ai_events |-> <<>>]
    /\ pc \notin Terminal => response = NoResponse
    /\ exc # <<>> => pc \in {"aexit", "except", "Error"}

C4_Witness == pc = "Error" /\ events_data # <<>> /\ response.status = 500

C5_BrowserReleased ==
    pc \in {"parse", "card_loop", "except", "Responded", "Error"} =>
        browser # "open"

ExtractAll(found) == [k \in DOMAIN found |-> ExtractRecord(found[k])]

\* C6: the keyword filter applied to an already filtered list returns that
\* list unchanged: same records, same order.
C6_FilterIdempotent ==
    pc = "Responded" =>
        /\ FilterRecords(response.ai_events) = response.ai_events
        /\ LET once == FilterRecords(ExtractAll(event_cards))
           IN  FilterRecords(once) = once

C6_Witness ==
    /\ pc = "Responded"
    /\ Len(response.ai_events) = 2
    /\ response.ai_events[1] # response.ai_events[2]
    /\ FilterRecords(ExtractAll(event_cards)) = response.ai_events

\* C7: the list built card by card equals extracting all cards in document
\* order and then keeping the keyword-matching records: the matching
\* subsequence, nothing reordered, dropped or duplicated.
C7_LoopIsExtractThenFilter ==
    pc \in {"card_loop", "Responded"} =>
        /\ events_data =
              SelectSeq(ExtractAll(SubSeq(event_cards, 1, n)),
                        LAMBDA r : is_ai_event(r.title, r.description))
        /\ pc = "Responded" =>
              /\ n = Len(event_cards)
              /\ response.ai_events =
                    SelectSeq(ExtractAll(event_cards),
                              LAMBDA r : is_ai_event(r.title, r.description))

C7_Witness ==
    /\ pc = "Responded"
    /\ Len(event_cards) = 2
    /\ Len(response.ai_events) = 1
    /\ response.ai_events[1] = ExtractRecord(event_cards[2])

\* The onclick text holds a call window.open('...') from index a to the
\* closing quote at index b, with a non-empty argument free of quotes.
OpenCallAt(text, a, b) ==
    /\ a + Len(WindowOpen) - 1 <= Len(text)
    /\ SubSeq(text, a, a + Len(WindowOpen) - 1) = WindowOpen
    /\ b > a + Len(WindowOpen)
    /\ b <= Len(text)
    /\ text[b] = Quote
    /\ \A c \in (a + Len(WindowOpen))..(b - 1) : text[c] # Quote

OpenCalls(text) ==
    {ab \in (1..Len(text)) \X (1..Len(text)) : OpenCallAt(text, ab[1], ab[2])}

FirstOpenArgument(text) ==
    LET ab == CHOOSE ab \in OpenCalls(text) : \A cd \in OpenCalls(text) : ab[1] <= cd[1]
    IN  SubSeq(text, ab[1] + Len(WindowOpen), ab[2] - 1)

\* C8: extraction of a card does not fail on missing sub-elements and gives
\* all four fields, each on its own: title and date are "N/A" and
\* description is "" when their element is missing, and are the element's
\* text otherwise, whatever else is missing; link is "N/A" when the button
\* is missing, has no onclick, or the onclick holds no window.open('...')
\* call, and the first quoted argument of that call otherwise.
C8_FieldDefaults ==
    /\ pc \in {"card_loop", "Responded"}
    /\ exc = <<>>
    /\ n >= 1 =>
          LET card == event_cards[n]
              button == card.button
          IN  /\ DOMAIN fields = {"title", "date", "description", "link"}
              /\ fields.title = IF card.title.found
                                THEN get_text(card.title.strings) ELSE NA
              /\ fields.date = IF card.date.found
                               THEN get_text(card.date.strings) ELSE NA
              /\ fields.description = IF card.description.found
                                      THEN get_text(card.description.strings) ELSE <<>>
              /\ fields.link =
                    IF \/ ~button.found
                       \/ ~button.has_onclick
                       \/ OpenCalls(button.onclick) = {}
                    THEN NA
                    ELSE FirstOpenArgument(button.onclick)
              /\ events_data \in {<<>>, <<fields>>}

C8_Witness ==
    /\ n = 1
    /\ pc = "Responded"
    /\ event_cards[1].title.found
    /\ ~event_cards[1].date.found
    /\ ~event_cards[1].description.found
    /\ fields.title = <<"A", "z", "u", "r", "e", " ", "A", "I", " ", "S", "u", "m", "m", "i", "t">>
    /\ fields.date = NA
    /\ fields.description = <<>>
    /\ fields.link = <<"h", "t", "t", "p", "s", ":", "/", "/", "r", "e", "g", ".", "e", "x", "a", "m", "p", "l", "e", "/", "1">>
    /\ response.ai_events = <<fields>>

LoadMoreRound ==
    <<"query_selector", "click", "wait_for_timeout(5000)", "wait_for_load_state">>

ScrollPhase ==
    <<"scrollTo", "wait_for_timeout(2000)", "scrollTo", "wait_for_timeout(2000)",
      "scrollTo", "wait_for_timeout(2000)">>

\* The calls between goto and the first scroll: whole load-more rounds,
\* then at most one round that stopped early.
IsLoadMorePhase(phase) ==
    /\ Len(phase) <= 4 * Len(LoadMoreRound)
    /\ \A k \in DOMAIN phase : phase[k] = LoadMoreRound[((k - 1) % Len(LoadMoreRound)) + 1]

\* C9: after a successful navigation there are at most 4 clicks; the
\* load-more phase ends with the first round that finds no button or in
\* which a call raises, and that does not fail the render; when the content
\* is captured the calls are goto, the load-more rounds, then exactly 3
\* scrolls each followed by its 2 s wait, then content.
C9_LoadMoreThenThreeScrolls ==
    /\ Count(calls, "click") <= 4
    /\ Count(calls, "scrollTo") <= 3
    /\ (exc # <<>> /\ calls # <<>>) => calls[Len(calls)] \notin Range(LoadMoreRound)
    /\ pc \in {"query_selector", "click", "wait_for_timeout(5000)",
               "wait_for_load_state"} =>
          /\ exc = <<>>
          /\ calls[1] = "goto"
          /\ IsLoadMorePhase(SubSeq(calls, 2, Len(calls)))
    /\ Count(calls, "content") = 1 =>
          LET c == CHOOSE k \in DOMAIN calls : calls[k] = "content"
          IN  /\ c >= 2 + Len(ScrollPhase)
              /\ calls[1] = "goto"
              /\ IsLoadMorePhase(SubSeq(calls, 2, c - 1 - Len(ScrollPhase)))
              /\ SubSeq(calls, c - Len(ScrollPhase), c - 1) = ScrollPhase

C9_Witness ==
    /\ pc = "Responded"
    /\ Count(calls, "click") = 3
    /\ Count(calls, "query_selector") = 3
    /\ Count(calls, "wait_for_load_state") = 2
    /\ Count(calls, "scrollTo") = 3

\* C10: the fallback selector is searched exactly when the primary selector
\* finds no card; with a primary match the processed cards are exactly the
\* primary matches and an element only the fallback matches gives no
\* record; without one the processed cards are exactly the fallback matches.
C10_FallbackOnlyWhenNoPrimary ==
    pc \in {"card_loop", "Responded"} =>
        LET primary == PrimaryCards(html_content)
        IN  /\ fallback_searched <=> (primary = <<>>)
            /\ primary # <<>> =>
                  /\ event_cards = primary
                  /\ \A k \in DOMAIN event_cards : PrimaryMatch(event_cards[k])
                  /\ Len(events_data) <= Len(primary)
            /\ primary = <<>> => event_cards = FallbackCards(html_content)

C10_Witness ==
    /\ pc = "Responded"
    /\ ~fallback_searched
    /\ Len(event_cards) = 1
    /\ \E k \in DOMAIN html_content :
          /\ FallbackMatch(html_content[k])
          /\ ~PrimaryMatch(html_content[k])
          /\ is_ai_event(ExtractRecord(html_content[k]).title,
                         ExtractRecord(html_content[k]).description)
    /\ Len(response.ai_events) <= 1
====
